---- MODULE Spec2Model ----
(***************************************************************************)
(* A model of zdoc's documentation core (src/src/main.rs): the API diff    *)
(* (compare_api_items, display_diff), the index normaliser                 *)
(* (extract_api_items), the signature extractor (extract_signature) and    *)
(* the type formatter (format_type).                                       *)
(*                                                                         *)
(* Strings are TLA+ strings; Rust's String ordering (byte-wise,            *)
(* lexicographic) is StrLt below.  A serde_json Value is a tagged record,  *)
(* an object being the sequence of its (key, value) entries in the         *)
(* object's iteration order.                                               *)
(***************************************************************************)
EXTENDS Integers, Sequences, FiniteSets, TLC

VARIABLES
    pc,          \* position in the command being run
    old_items,   \* compare_api_items' first argument
    new_items,   \* compare_api_items' second argument
    added,       \* the three result vectors: as returned by
    removed,     \*   compare_api_items (pc = "compared"), as printed by
    modified,    \*   display_diff (pc = "displayed")
    first,       \* the previous run of the diff, when it is run twice
    json_data,   \* extract_api_items' argument (a document)
    items,       \* extract_api_items' result
    item_type,   \* extract_signature's first argument
    inner_data,  \* extract_signature's second argument (Option<&Value>)
    signature,   \* extract_signature's result
    type_data,   \* format_type's argument
    formatted,   \* format_type's result
    matcher,     \* the fuzzy matcher: for the query, each name's Option<i64>
    crates,      \* search_docs' crates_to_search, each with its JSON file
    limit,       \* search_docs' limit
    results      \* the search's result: fuzzy_search_json's, search_docs'

vars == <<pc, old_items, new_items, added, removed, modified, first,
          json_data, items, item_type, inner_data, signature,
          type_data, formatted, matcher, crates, limit, results>>

normVars == <<json_data, items>>
sigVars  == <<item_type, inner_data, signature>>
typeVars == <<type_data, formatted>>
searchVars == <<matcher, crates, limit, results>>

None == [none |-> TRUE]

-----------------------------------------------------------------------------
(* Bounds of the model.                                                    *)

\* items of the old and the new snapshot together
MaxItems == 3

\* items of a snapshot that is compared with itself
MaxSnapshot == 2

\* entries of an index
MaxEntries == 2

\* parameters of a function
MaxParams == 2

\* fields of a struct, variants of an enum, items of a trait
MaxFields == 3

\* references nested in a type
MaxDepth == 2

\* crates of a search
MaxCrates == 2

\* the limit of a search
MaxLimit == 3

\* the score the matcher gives a name
MaxScore == 2

-----------------------------------------------------------------------------
(* Strings.                                                                *)

Min(S) == CHOOSE x \in S : \A y \in S : x <= y
Max(S) == CHOOSE x \in S : \A y \in S : y <= x

\* The characters the model's strings are made of, in byte order.
Ascii == " &(),-.0123456789:>?ABCDEFGHIJKLMNOPQRSTUVWXYZ_abcdefghijklmnopqrstuvwxyz{}"

CharAt(s, i) == SubSeq(s, i, i)

OrdTable ==
    [c \in {CharAt(Ascii, i) : i \in 1..Len(Ascii)} |->
        CHOOSE i \in 1..Len(Ascii) : CharAt(Ascii, i) = c]

Ord(c) == OrdTable[c]

\* a < b in Rust's ordering of String (Ord for str: lexicographic on bytes)
StrLt(a, b) ==
    LET n == IF Len(a) <= Len(b) THEN Len(a) ELSE Len(b)
        diff == {i \in 1..n : CharAt(a, i) # CharAt(b, i)}
    IN  IF diff = {}
        THEN Len(a) < Len(b)
        ELSE Ord(CharAt(a, Min(diff))) < Ord(CharAt(b, Min(diff)))

\* [String]::join(sep)
RECURSIVE Join(_, _)
Join(parts, sep) ==
    IF parts = <<>> THEN ""
    ELSE IF Len(parts) = 1 THEN parts[1]
    ELSE parts[1] \o sep \o Join(Tail(parts), sep)

\* the sequences over S of length at most n
SeqsUpTo(S, n) == UNION {[1..k -> S] : k \in 0..n}

\* the orders in which a hash set holding S can be iterated
Orders(S) ==
    {o \in [1..Cardinality(S) -> S] : \A i, j \in DOMAIN o : o[i] = o[j] => i = j}

Range(s) == {s[i] : i \in DOMAIN s}

MapSeq(s, F(_)) == [i \in DOMAIN s |-> F(s[i])]

-----------------------------------------------------------------------------
(* ApiItem and the diff.                                                   *)

ApiItem(name, kind, path, sig) ==
    [name |-> name, item_type |-> kind, path |-> path, signature |-> sig]

full_path(item) ==
    IF item.path = <<>>
    THEN item.name
    ELSE Join(item.path, "::") \o "::" \o item.name

\* the key compare_api_items files an item under
item_key(item) == full_path(item) \o "::" \o item.item_type

\* (mutant) the map keeps the first item of a key, not the last
collect_map_first(its) ==
    LET keys == [i \in DOMAIN its |-> item_key(its[i])]
    IN  [k \in {keys[i] : i \in DOMAIN its} |->
            its[Min({i \in DOMAIN its : keys[i] = k})]]

\* Vec<ApiItem> -> HashMap<String, ApiItem>: collect() inserts the items in
\* order, a later item replacing an earlier one of the same key
collect_map(its) ==
    LET keys == [i \in DOMAIN its |-> item_key(its[i])]
    IN  [k \in {keys[i] : i \in DOMAIN its} |->
            its[Max({i \in DOMAIN its : keys[i] = k})]]

\* HashSet::intersection walks the smaller of the two sets
intersection_order(old_keys, new_keys, old_order, new_order) ==
    IF Cardinality(old_keys) <= Cardinality(new_keys)
    THEN old_order ELSE new_order

\* (mutant) every key of both maps makes a modified pair
is_modified_any(old_set, new_set, key) == TRUE

\* which keys of both maps make a modified pair
is_modified(old_set, new_set, key) ==
    old_set[key].signature # new_set[key].signature

\* (mutant) no key is left out
difference_unfiltered(order, other_keys) == order

\* HashSet::difference: the keys of this set, in its iteration order, that
\* the other set does not hold
difference(order, other_keys) ==
    LET Missing(k) == k \notin other_keys
    IN  SelectSeq(order, Missing)

\* the body of compare_api_items once both maps are built; old_order and
\* new_order are the iteration orders of the hash sets old_keys and new_keys
diff_maps(old_set, new_set, old_order, new_order) ==
    LET Changed(k) == k \in DOMAIN old_set /\ k \in DOMAIN new_set
                        /\ is_modified(old_set, new_set, k)
        NewItem(k) == new_set[k]
        OldItem(k) == old_set[k]
        Both(k) == <<old_set[k], new_set[k]>>
    IN  [added    |-> MapSeq(difference(new_order, DOMAIN old_set), NewItem),
         removed  |-> MapSeq(difference(old_order, DOMAIN new_set), OldItem),
         modified |-> MapSeq(SelectSeq(intersection_order(DOMAIN old_set, DOMAIN new_set,
                                           old_order, new_order), Changed),
                             Both)]

compare_api_items(olds, news, old_order, new_order) ==
    diff_maps(collect_map(olds), collect_map(news), old_order, new_order)

\* slice::sort_by: a stable sort, by the path P gives
stable_sort(s, P(_)) ==
    LET n == Len(s)
        path == [i \in 1..n |-> P(s[i])]
        pos == [i \in 1..n |-> 1 + Cardinality({j \in 1..n :
                        \/ StrLt(path[j], path[i])
                        \/ (path[j] = path[i] /\ j < i)})]
    IN  [p \in 1..n |-> s[CHOOSE i \in 1..n : pos[i] = p]]

pair_path(pair) == full_path(pair[1])

\* (mutant) the vector is printed as compare_api_items returned it
sort_items_unsorted(its) == its

\* display_diff's sort of removed and of added
sort_items(its) == stable_sort(its, full_path)

\* display_diff's sort of modified, by the old item's path
sort_pairs(pairs) == stable_sort(pairs, pair_path)

-----------------------------------------------------------------------------
(* serde_json::Value.                                                      *)

JNull == [t |-> "null"]
JBool(b) == [t |-> "bool", b |-> b]
JNum(n) == [t |-> "num", n |-> n]
JStr(s) == [t |-> "str", s |-> s]
JArr(a) == [t |-> "arr", a |-> a]
\* an object: its entries <<key, value>> in the order the map iterates them
JObj(o) == [t |-> "obj", o |-> o]

\* Value::get(key), and Option::and_then over it: None of None, of a value
\* that is no object, and of an object without the key
get(v, key) ==
    IF v = None THEN None
    ELSE IF v.t = "obj" /\ \E i \in DOMAIN v.o : v.o[i][1] = key
         THEN v.o[CHOOSE i \in DOMAIN v.o : v.o[i][1] = key][2]
         ELSE None

\* Value::get(index): the element of an array, counted from 0
get_index(v, i) ==
    IF v = None THEN None
    ELSE IF v.t = "arr" /\ (i + 1) \in DOMAIN v.a THEN v.a[i + 1] ELSE None

\* as_str(), as_array(), as_object(), as_bool() give Some
is_str(v) == v # None /\ v.t = "str"
is_array(v) == v # None /\ v.t = "arr"
is_object(v) == v # None /\ v.t = "obj"
is_bool(v) == v # None /\ v.t = "bool"
is_null(v) == v # None /\ v.t = "null"

\* Map::keys().next()
first_key(obj) == IF obj.o = <<>> THEN None ELSE JStr(obj.o[1][1])

-----------------------------------------------------------------------------
(* format_type and extract_signature.                                      *)

\* (mutant) the primitive rule is tried before the resolved-path rule
RECURSIVE format_type_primitive_first(_)
format_type_primitive_first(ty) ==
    IF is_str(get(ty, "primitive"))
    THEN get(ty, "primitive").s
    ELSE IF is_str(get(get(ty, "resolved_path"), "name"))
    THEN get(get(ty, "resolved_path"), "name").s
    ELSE IF get(ty, "borrowed_ref") # None
    THEN LET borrowed_ref == get(ty, "borrowed_ref")
             mutable == is_bool(get(borrowed_ref, "mutable"))
                          /\ get(borrowed_ref, "mutable").b
             inner_type == IF get(borrowed_ref, "type") # None
                           THEN format_type_primitive_first(get(borrowed_ref, "type"))
                           ELSE "?"
         IN  IF mutable THEN "&mut " \o inner_type ELSE "&" \o inner_type
    ELSE "..."

RECURSIVE format_type(_)
format_type(ty) ==
    IF is_str(get(get(ty, "resolved_path"), "name"))
    THEN get(get(ty, "resolved_path"), "name").s
    ELSE IF is_str(get(ty, "primitive"))
    THEN get(ty, "primitive").s
    ELSE IF get(ty, "borrowed_ref") # None
    THEN LET borrowed_ref == get(ty, "borrowed_ref")
             mutable == is_bool(get(borrowed_ref, "mutable"))
                          /\ get(borrowed_ref, "mutable").b
             inner_type == IF get(borrowed_ref, "type") # None
                           THEN format_type(get(borrowed_ref, "type"))
                           ELSE "?"
         IN  IF mutable THEN "&mut " \o inner_type ELSE "&" \o inner_type
    ELSE "..."

\* the filter_map over decl.inputs: a parameter without a string name or
\* without a type is left out
format_param(input) ==
    IF is_str(get_index(input, 0)) /\ get_index(input, 1) # None
    THEN <<get_index(input, 0).s \o ": " \o format_type(get_index(input, 1))>>
    ELSE <<>>

RECURSIVE format_params(_)
format_params(inputs) ==
    IF inputs = <<>> THEN <<>>
    ELSE format_param(Head(inputs)) \o format_params(Tail(inputs))

\* (mutant) the return type is appended also when it is the unit type
return_part_with_unit(decl) ==
    LET output == get(decl, "output")
    IN  IF output # None /\ ~is_null(output)
        THEN <<"-> " \o format_type(output)>>
        ELSE <<>>

\* the part of the signature the return type gives
return_part(decl) ==
    LET output == get(decl, "output")
    IN  IF output # None /\ ~is_null(output) /\ format_type(output) # "()"
        THEN <<"-> " \o format_type(output)>>
        ELSE <<>>

function_signature(inner) ==
    LET decl == get(inner, "decl")
        inputs == get(decl, "inputs")
        params_part == IF is_array(inputs)
                       THEN <<"(" \o Join(format_params(inputs.a), ", ") \o ")">>
                       ELSE <<>>
    IN  IF decl = None THEN ""
        ELSE Join(params_part \o return_part(decl), " ")

\* the plain layout counts the field ids that are strings
plain_field_count(fields) ==
    Cardinality({i \in DOMAIN fields : is_str(fields[i])})

struct_signature(inner) ==
    LET kind == get(inner, "kind")
        fields == get(inner, "fields")
    IN  IF ~is_str(kind) THEN ""
        ELSE IF kind.s = "plain" /\ is_array(fields)
        THEN "{ " \o ToString(plain_field_count(fields.a)) \o " fields }"
        ELSE IF kind.s = "tuple" /\ is_array(fields)
        THEN "(" \o ToString(Len(fields.a)) \o " fields)"
        ELSE ""

enum_signature(inner) ==
    LET variants == get(inner, "variants")
    IN  IF is_array(variants)
        THEN "{ " \o ToString(Len(variants.a)) \o " variants }"
        ELSE ""

trait_signature(inner) ==
    LET its == get(inner, "items")
    IN  IF is_array(its)
        THEN "{ " \o ToString(Len(its.a)) \o " items }"
        ELSE ""

\* kind is a string; inner is the Option<&Value> of the payload
extract_signature(kind, inner) ==
    IF inner = None THEN ""
    ELSE IF kind \in {"Function", "Method"} THEN function_signature(inner)
    ELSE IF kind = "Struct" THEN struct_signature(inner)
    ELSE IF kind = "Enum" THEN enum_signature(inner)
    ELSE IF kind = "Trait" THEN trait_signature(inner)
    ELSE ""

-----------------------------------------------------------------------------
(* extract_api_items.                                                      *)

\* the strings of the entry's "path" array; empty when there is none
entry_path(item) ==
    LET path == get(item, "path")
        IsString(v) == is_str(v)
        StringOf(v) == v.s
    IN  IF is_array(path) THEN MapSeq(SelectSeq(path.a, IsString), StringOf) ELSE <<>>

\* first pass: the path of every entry that has a string name, by its id
id_to_path(index) ==
    [id \in {index.o[i][1] : i \in {j \in DOMAIN index.o : is_str(get(index.o[j][2], "name"))}} |->
        entry_path(index.o[CHOOSE i \in DOMAIN index.o : index.o[i][1] = id][2])]

\* the kind of an entry whose inner is an object: its first key, or the
\* empty string (unwrap_or_default) when the object has no key
inner_kind(inner) == IF first_key(inner) = None THEN "" ELSE first_key(inner).s

is_skipped_kind(kind) == kind \in {"Import", "ProcMacro"}

\* second pass, one entry: the items it pushes
entry_items(id, item, paths) ==
    LET inner == get(item, "inner")
    IN  IF ~is_str(get(item, "name")) THEN <<>>
        ELSE IF ~is_object(inner) THEN <<>>
        ELSE IF is_skipped_kind(inner_kind(inner)) THEN <<>>
        ELSE <<ApiItem(get(item, "name").s,
                       inner_kind(inner),
                       IF id \in DOMAIN paths THEN paths[id] ELSE <<>>,
                       extract_signature(inner_kind(inner),
                                         get(inner, inner_kind(inner))))>>

RECURSIVE second_pass(_, _)
second_pass(entries, paths) ==
    IF entries = <<>> THEN <<>>
    ELSE entry_items(Head(entries)[1], Head(entries)[2], paths)
            \o second_pass(Tail(entries), paths)

Err == [ok |-> FALSE]
Ok(v) == [ok |-> TRUE, items |-> v]

\* (mutant) a document without index mapping has no items
extract_api_items_lenient(doc) ==
    LET index == get(doc, "index")
    IN  IF ~is_object(index) THEN Ok(<<>>)
        ELSE Ok(second_pass(index.o, id_to_path(index)))

extract_api_items(doc) ==
    LET index == get(doc, "index")
    IN  IF ~is_object(index) THEN Err
        ELSE Ok(second_pass(index.o, id_to_path(index)))

-----------------------------------------------------------------------------
(* fuzzy_search_json and search_docs.                                      *)

\* matcher.fuzzy_match(name, query): None, or Some(score)
NoMatch == [matched |-> FALSE]
Match(score) == [matched |-> TRUE, score |-> score]

\* the query is fixed for a search, so the matcher is its table of names
fuzzy_match(m, name) == m[name]

SearchResult(name, crate_name, kind, description, score) ==
    [name |-> name, crate_name |-> crate_name, item_type |-> kind,
     path |-> None, description |-> description, score |-> score]

\* (mutant) the empty string for an inner without key, as extract_api_items
search_item_type_default(item) ==
    LET inner == get(item, "inner")
    IN  IF is_object(inner) THEN inner_kind(inner) ELSE "unknown"

\* the item type of a search result: the first key of an inner that is an
\* object, "unknown" otherwise
search_item_type(item) ==
    LET inner == get(item, "inner")
    IN  IF is_object(inner) /\ first_key(inner) # None
        THEN first_key(inner).s
        ELSE "unknown"

\* the docs of an entry when they are a string
search_description(item) ==
    IF is_str(get(item, "docs")) THEN get(item, "docs") ELSE None

\* the loop body of fuzzy_search_json: the results one entry pushes
entry_results(item, crate_name, m) ==
    IF ~is_str(get(item, "name")) THEN <<>>
    ELSE IF ~fuzzy_match(m, get(item, "name").s).matched THEN <<>>
    ELSE <<SearchResult(get(item, "name").s, crate_name,
                        search_item_type(item), search_description(item),
                        fuzzy_match(m, get(item, "name").s).score)>>

RECURSIVE search_entries(_, _, _)
search_entries(entries, crate_name, m) ==
    IF entries = <<>> THEN <<>>
    ELSE entry_results(Head(entries)[2], crate_name, m)
            \o search_entries(Tail(entries), crate_name, m)

fuzzy_search_json(doc, crate_name, m) ==
    LET index == get(doc, "index")
    IN  IF ~is_object(index) THEN Err
        ELSE Ok(search_entries(index.o, crate_name, m))

\* a crate's JSON file: None when it does not exist, Unparsable when
\* serde_json rejects its text, its Value otherwise
Unparsable == [unparsable |-> TRUE]
Crate(name, json) == [crate_name |-> name, json |-> json]

\* search_docs' loop over the crates: the error of a crate ends the
\* search, a crate without file is passed over
RECURSIVE search_crates(_, _)
search_crates(cs, m) ==
    IF cs = <<>> THEN Ok(<<>>)
    ELSE IF Head(cs).json = None THEN search_crates(Tail(cs), m)
    ELSE IF Head(cs).json = Unparsable THEN Err
    ELSE LET matches == fuzzy_search_json(Head(cs).json, Head(cs).crate_name, m)
             rest == search_crates(Tail(cs), m)
         IN  IF ~matches.ok \/ ~rest.ok THEN Err
             ELSE Ok(matches.items \o rest.items)

\* (mutant) the lowest score comes first
sort_by_score_ascending(rs) ==
    LET n == Len(rs)
        pos == [i \in 1..n |-> 1 + Cardinality({j \in 1..n :
                        \/ rs[j].score < rs[i].score
                        \/ (rs[j].score = rs[i].score /\ j < i)})]
    IN  [p \in 1..n |-> rs[CHOOSE i \in 1..n : pos[i] = p]]

\* sort_by(|a, b| b.score.cmp(&a.score)): stable, the highest score first
sort_by_score(rs) ==
    LET n == Len(rs)
        pos == [i \in 1..n |-> 1 + Cardinality({j \in 1..n :
                        \/ rs[j].score > rs[i].score
                        \/ (rs[j].score = rs[i].score /\ j < i)})]
    IN  [p \in 1..n |-> rs[CHOOSE i \in 1..n : pos[i] = p]]

\* Vec::truncate
truncate(rs, n) == SubSeq(rs, 1, Min({n, Len(rs)}))

search_docs(cs, m, n) ==
    LET all_results == search_crates(cs, m)
    IN  IF ~all_results.ok THEN Err
        ELSE Ok(truncate(sort_by_score(all_results.items), n))

-----------------------------------------------------------------------------
(* The values the model feeds the extractors.                              *)

Field(key, v) == IF v = None THEN <<>> ELSE <<<<key, v>>>>

Prim(name) == JObj(<<<<"primitive", JStr(name)>>>>)
Resolved(name) == JObj(<<<<"resolved_path", JObj(<<<<"name", JStr(name)>>>>)>>>>)
Ref(mutable, ty) ==
    JObj(<<<<"borrowed_ref", JObj(Field("mutable", mutable) \o Field("type", ty))>>>>)
\* a shape format_type does not model: the unit tuple
Tuple == JObj(<<<<"tuple", JArr(<<>>)>>>>)

BaseTypes ==
    {Prim("i32"), Resolved("Vec"), Tuple, JNull, JStr("i32"),
     \* a resolved path without a name, alone and beside a primitive
     JObj(<<<<"resolved_path", JObj(<<>>)>>>>),
     JObj(<<<<"resolved_path", JObj(<<>>)>>, <<"primitive", JStr("u8")>>>>),
     \* both tags, in either order
     JObj(<<<<"primitive", JStr("u8")>>, <<"resolved_path", JObj(<<<<"name", JStr("Vec")>>>>)>>>>),
     JObj(<<<<"resolved_path", JObj(<<<<"name", JStr("Vec")>>>>)>>, <<"primitive", JStr("u8")>>>>),
     \* a primitive that is no string
     JObj(<<<<"primitive", JNum(8)>>>>)}

MutableFlags == {None, JBool(TRUE), JBool(FALSE)}

RECURSIVE TypeValues(_)
TypeValues(depth) ==
    IF depth = 0 THEN BaseTypes
    ELSE LET sub == TypeValues(depth - 1)
         IN  sub \cup {Ref(m, ty) : m \in MutableFlags, ty \in sub}
                 \cup {Ref(m, None) : m \in MutableFlags}
                 \cup {JObj(<<<<"primitive", JStr("u8")>>>> \o Ref(JBool(TRUE), ty).o) : ty \in BaseTypes}

ParamTypes == {Prim("i32"), Resolved("Vec"), Ref(JBool(TRUE), Prim("str")), Tuple}

Params ==
    {JArr(<<JStr("x"), ty>>) : ty \in ParamTypes}
        \cup {JArr(<<JStr("x")>>), JArr(<<JNull, Prim("i32")>>), JStr("self")}

InputLists == {None, JNull} \cup {JArr(l) : l \in SeqsUpTo(Params, MaxParams)}

Outputs == {None, JNull, Prim("i32"), Prim("()"), Tuple, Ref(None, Resolved("T"))}

FunctionPayloads ==
    {JObj(<<>>)} \cup
    {JObj(<<<<"decl", JObj(Field("inputs", i) \o Field("output", o))>>>>) :
        i \in InputLists, o \in Outputs}

FieldIds == {JStr("0:7"), JNum(7)}

FieldLists == {None} \cup {JArr(l) : l \in SeqsUpTo(FieldIds, MaxFields)}

StructKinds == {None, JStr("plain"), JStr("tuple"), JStr("unit"), JStr("union"),
                JObj(<<<<"plain", JObj(<<>>)>>>>)}

StructPayloads ==
    {JObj(Field("kind", k) \o Field("fields", f)) : k \in StructKinds, f \in FieldLists}

EnumPayloads == {JObj(Field("variants", f)) : f \in FieldLists}

TraitPayloads == {JObj(Field("items", f)) : f \in FieldLists}

Payloads == FunctionPayloads \cup StructPayloads \cup EnumPayloads \cup TraitPayloads

SignatureKinds ==
    {"Function", "Method", "Struct", "Enum", "Trait", "Import", "TypeAlias", ""}

\* the example of the spec: fn foo(x: i32) -> i32
FooPayload ==
    JObj(<<<<"decl", JObj(<<<<"inputs", JArr(<<JArr(<<JStr("x"), Prim("i32")>>)>>)>>,
                             <<"output", Prim("i32")>>>>)>>>>)

PlainStruct(n) ==
    JObj(<<<<"kind", JStr("plain")>>, <<"fields", JArr([i \in 1..n |-> JStr("0:7")])>>>>)

EntryNames == {None, JNull, JStr("f")}
EntryDeclPaths == {None, JArr(<<JStr("m")>>)}
EntryInners ==
    {None, JObj(<<>>),
     JObj(<<<<"Import", JObj(<<>>)>>>>),
     JObj(<<<<"ProcMacro", JObj(<<>>)>>>>),
     JObj(<<<<"Function", FooPayload>>>>),
     JObj(<<<<"Struct", PlainStruct(2)>>>>)}

Entries ==
    {JObj(Field("name", n) \o Field("path", p) \o Field("inner", i)) :
        n \in EntryNames, p \in EntryDeclPaths, i \in EntryInners}

\* an index: its entries under the ids "1", "2", ...
IndexOf(entries) == JObj([i \in DOMAIN entries |-> <<ToString(i), entries[i]>>])

Documents ==
    {JNull, JObj(<<>>), JObj(<<<<"index", JArr(<<>>)>>>>)}
        \cup {JObj(<<<<"index", IndexOf(es)>>>>) : es \in SeqsUpTo(Entries, MaxEntries)}

\* the matchers of a query over the names it may meet
MatchResults == {NoMatch} \cup {Match(n) : n \in 1..MaxScore}
Matchers(names) == [names -> MatchResults]

NamedEntry(name) ==
    JObj(<<<<"name", JStr(name)>>, <<"inner", JObj(<<<<"Function", FooPayload>>>>)>>>>)

\* the example of the spec: a crate whose items are iter, filter, into_iter
IterDocument ==
    JObj(<<<<"index", IndexOf(<<NamedEntry("iter"), NamedEntry("filter"),
                                NamedEntry("into_iter")>>)>>>>)

\* a crate with an entry without name and an entry named iter
SmallDocument ==
    JObj(<<<<"index", IndexOf(<<JObj(<<<<"name", JNull>>>>), NamedEntry("iter")>>)>>>>)

CrateNames == {"iter", "filter", "into_iter"}

\* the entries of a searched index: the inner of an entry is absent, empty,
\* a re-export, a procedural macro or a function; its docs are absent, null
\* or a text
SearchEntry(n, i, d) == JObj(Field("name", n) \o Field("inner", i) \o Field("docs", d))
FunctionInner == JObj(<<<<"Function", FooPayload>>>>)
SearchInners ==
    {None, JObj(<<>>), JObj(<<<<"Import", JObj(<<>>)>>>>),
     JObj(<<<<"ProcMacro", JObj(<<>>)>>>>), FunctionInner}
DocText == JStr("Returns an iterator.")
DocValues == {None, JNull, DocText}
SearchNames == {"iter", "filter"}
SearchEntries ==
    {SearchEntry(JStr("iter"), i, d) : i \in SearchInners, d \in DocValues}
        \cup {SearchEntry(JStr("filter"), FunctionInner, None),
              SearchEntry(None, FunctionInner, DocText),
              SearchEntry(JNull, FunctionInner, None)}

SearchDocuments ==
    {JObj(<<>>)}
        \cup {JObj(<<<<"index", IndexOf(es)>>>>) : es \in SeqsUpTo(SearchEntries, MaxEntries)}

\* entries of shapes the extractors do not know, next to entries they know:
\* an entry that is no object, an inner that is no object, an unknown kind,
\* a function without declaration, a parameter of an unknown type, a path
\* that is no array
OddEntries ==
    {JNull,
     SearchEntry(JStr("iter"), JStr("fn"), None),
     SearchEntry(JStr("iter"), JObj(<<<<"Macro", JNull>>>>), None),
     SearchEntry(JStr("iter"), JObj(<<<<"Function", JObj(<<>>)>>>>), None),
     SearchEntry(JStr("iter"),
                 JObj(<<<<"Function",
                          JObj(<<<<"decl", JObj(<<<<"inputs",
                                JArr(<<JArr(<<JStr("x"), Tuple>>)>>)>>>>)>>>>)>>>>),
                 None),
     JObj(<<<<"name", JStr("iter")>>, <<"path", JStr("m")>>, <<"inner", FunctionInner>>>>)}

MixedEntries ==
    OddEntries
        \cup {NamedEntry("filter"),
              SearchEntry(None, FunctionInner, None),
              SearchEntry(JStr("iter"), JObj(<<<<"Import", JObj(<<>>)>>>>), None)}

\* documents without index, with an index that is no mapping, and with an
\* index of MixedEntries
IndexDocuments ==
    {JNull, JObj(<<>>), JObj(<<<<"index", JNull>>>>), JObj(<<<<"index", JArr(<<>>)>>>>),
     JObj(<<<<"index", JStr("index")>>>>)}
        \cup {JObj(<<<<"index", IndexOf(es)>>>>) : es \in SeqsUpTo(MixedEntries, MaxEntries)}

\* the crate fuzzy_search_json is called for
SearchedCrate == "core"

\* what the file of a crate may hold
CrateFiles == {None, Unparsable, JObj(<<>>), IterDocument, SmallDocument}

\* the crates of a search: the i-th is named "crate<i>"
CrateLists ==
    {[i \in DOMAIN fs |-> Crate("crate" \o ToString(i), fs[i])] :
        fs \in SeqsUpTo(CrateFiles, MaxCrates)}

-----------------------------------------------------------------------------
(* The diff's snapshots and steps.                                         *)

ItemNames == {"f"}
ItemPaths == {<<>>, <<"m">>}
ItemKinds == {"Function", "Struct"}
SignaturesOf(kind) ==
    IF kind = "Function" THEN {"()", "(x: i32)"}
    ELSE {"{ 2 fields }", "{ 3 fields }"}

\* the items the snapshots of the model are made of
ApiItems ==
    UNION {{ApiItem(n, k, p, s) : n \in ItemNames, p \in ItemPaths, s \in SignaturesOf(k)} :
            k \in ItemKinds}

KeysOf(its) == {item_key(its[i]) : i \in DOMAIN its}

\* no search is run
IdleSearch ==
    /\ matcher = None /\ crates = <<>> /\ limit = 0 /\ results = None

InitOther ==
    /\ json_data = None /\ items = None
    /\ item_type = "" /\ inner_data = None /\ signature = ""
    /\ type_data = None /\ formatted = ""
    /\ IdleSearch

InitDiff ==
    /\ pc = "start"
    /\ old_items \in SeqsUpTo(ApiItems, MaxItems)
    /\ new_items \in SeqsUpTo(ApiItems, MaxItems - Len(old_items))
    /\ added = <<>> /\ removed = <<>> /\ modified = <<>>
    /\ first = None

\* diff_docs calls compare_api_items
Compare ==
    /\ pc = "start"
    /\ \E old_order \in Orders(KeysOf(old_items)), new_order \in Orders(KeysOf(new_items)) :
       \E r \in {compare_api_items(old_items, new_items, old_order, new_order)} :
              /\ added' = r.added
              /\ removed' = r.removed
              /\ modified' = r.modified
    /\ pc' = "compared"
    /\ UNCHANGED <<old_items, new_items, first, normVars, sigVars, typeVars, searchVars>>

\* diff_docs calls display_diff, which sorts each vector before printing it
Display ==
    /\ pc = "compared"
    /\ removed' = sort_items(removed)
    /\ added' = sort_items(added)
    /\ modified' = sort_pairs(modified)
    /\ pc' = "displayed"
    /\ UNCHANGED <<old_items, new_items, first, normVars, sigVars, typeVars, searchVars>>

\* the orders a sequence's elements can be given in
Shuffles(s) == {[i \in DOMAIN s |-> s[o[i]]] : o \in Orders(DOMAIN s)}

ThisRun(mode) ==
    [mode |-> mode, added |-> added, removed |-> removed, modified |-> modified]

\* the diff is run again on the same two snapshots, their items in another
\* order (the index is a map: extract_api_items gives its items in the
\* map's iteration order)
RerunShuffled ==
    /\ pc = "displayed" /\ first = None
    /\ first' = ThisRun("shuffled")
    /\ old_items' \in Shuffles(old_items)
    /\ new_items' \in Shuffles(new_items)
    /\ added' = <<>> /\ removed' = <<>> /\ modified' = <<>>
    /\ pc' = "start"
    /\ UNCHANGED <<normVars, sigVars, typeVars, searchVars>>

\* the diff is run again with the two versions exchanged
RerunSwapped ==
    /\ pc = "displayed" /\ first = None
    /\ first' = ThisRun("swapped")
    /\ old_items' = new_items
    /\ new_items' = old_items
    /\ added' = <<>> /\ removed' = <<>> /\ modified' = <<>>
    /\ pc' = "start"
    /\ UNCHANGED <<normVars, sigVars, typeVars, searchVars>>

\* one snapshot compared with itself
InitIdentity ==
    /\ pc = "start"
    /\ old_items \in SeqsUpTo(ApiItems, MaxSnapshot)
    /\ new_items = old_items
    /\ added = <<>> /\ removed = <<>> /\ modified = <<>>
    /\ first = None

\* no diff is run
IdleDiff ==
    /\ pc = "start"
    /\ old_items = <<>> /\ new_items = <<>>
    /\ added = <<>> /\ removed = <<>> /\ modified = <<>>
    /\ first = None

\* diff_docs hands each fetched document to extract_api_items
Normalize ==
    /\ pc = "start"
    /\ items' = extract_api_items(json_data)
    /\ pc' = "normalized"
    /\ UNCHANGED <<old_items, new_items, added, removed, modified, first,
                   json_data, sigVars, typeVars, searchVars>>

\* extract_api_items calls extract_signature
ExtractSignature ==
    /\ pc = "start"
    /\ signature' = extract_signature(item_type, inner_data)
    /\ pc' = "extracted"
    /\ UNCHANGED <<old_items, new_items, added, removed, modified, first,
                   normVars, item_type, inner_data, typeVars,
                   searchVars>>

\* extract_signature calls format_type
FormatType ==
    /\ pc = "start"
    /\ formatted' = format_type(type_data)
    /\ pc' = "formatted"
    /\ UNCHANGED <<old_items, new_items, added, removed, modified, first,
                   normVars, sigVars, type_data, searchVars>>

\* fuzzy_search_json on the document of a crate
FuzzySearch ==
    /\ json_data # None /\ results = None
    /\ results' = fuzzy_search_json(json_data, SearchedCrate, matcher)
    /\ UNCHANGED <<pc, old_items, new_items, added, removed, modified, first,
                   normVars, sigVars, typeVars, matcher, crates, limit>>

\* search_docs, from the crates to search to the list it prints
SearchDocs ==
    /\ matcher # None /\ json_data = None /\ results = None
    /\ results' = search_docs(crates, matcher, limit)
    /\ UNCHANGED <<pc, old_items, new_items, added, removed, modified, first,
                   normVars, sigVars, typeVars, matcher, crates, limit>>

Init == InitDiff /\ InitOther

Next == Compare \/ Display

\* one run of the diff on two snapshots
Spec == Init /\ [][Next]_vars

NextTwice == Compare \/ Display \/ RerunShuffled \/ RerunSwapped

\* two runs of the diff
SpecTwice == Init /\ [][NextTwice]_vars

IdentityInit == InitIdentity /\ InitOther

\* one run of the diff on a snapshot and itself
SpecIdentity == IdentityInit /\ [][Next]_vars

NormalizeInit ==
    /\ IdleDiff
    /\ json_data \in Documents /\ items = None
    /\ item_type = "" /\ inner_data = None /\ signature = ""
    /\ type_data = None /\ formatted = ""
    /\ IdleSearch

\* extract_api_items on a document
SpecNormalize == NormalizeInit /\ [][Normalize]_vars

SignatureInit ==
    /\ IdleDiff
    /\ json_data = None /\ items = None
    /\ item_type \in SignatureKinds
    /\ inner_data \in {None} \cup Payloads
    /\ signature = ""
    /\ type_data = None /\ formatted = ""
    /\ IdleSearch

\* extract_signature on a kind and a payload
SpecSignature == SignatureInit /\ [][ExtractSignature]_vars

TypeInit ==
    /\ IdleDiff
    /\ json_data = None /\ items = None
    /\ item_type = "" /\ inner_data = None /\ signature = ""
    /\ type_data \in TypeValues(MaxDepth)
    /\ formatted = ""
    /\ IdleSearch

\* format_type on a type expression
SpecType == TypeInit /\ [][FormatType]_vars

SearchInit ==
    /\ IdleDiff
    /\ json_data = None /\ items = None
    /\ item_type = "" /\ inner_data = None /\ signature = ""
    /\ type_data = None /\ formatted = ""
    /\ matcher \in Matchers(CrateNames)
    /\ crates \in CrateLists
    /\ limit \in 0..MaxLimit
    /\ results = None

\* search_docs on the files of some crates
SpecSearch == SearchInit /\ [][SearchDocs]_vars

-----------------------------------------------------------------------------
(* The diff's claims.                                                      *)

Compared == pc \in {"compared", "displayed"}

\* the item a snapshot holds under a key: the one its map keeps
ItemOf(its, k) == its[Max({i \in DOMAIN its : item_key(its[i]) = k})]

PairKeys(pairs) == {item_key(pairs[i][1]) : i \in DOMAIN pairs}

OncePerKey(its) == Len(its) = Cardinality(KeysOf(its))

\* s is sorted ascending by the path P gives
SortedBy(s, P(_)) == \A i, j \in DOMAIN s : i < j => ~StrLt(P(s[j]), P(s[i]))

\* C1: a key is in added exactly when only the new snapshot has it, in
\* removed exactly when only the old one has it, in modified (with the old
\* and the new item) exactly when both have it and the two signatures
\* differ, and in none of them when both have it with equal signatures;
\* items that differ in kind alone have different keys.
C1_Classification ==
    Compared =>
        LET old_keys == KeysOf(old_items)
            new_keys == KeysOf(new_items)
        IN  /\ KeysOf(added) = new_keys \ old_keys
            /\ KeysOf(removed) = old_keys \ new_keys
            /\ \A i \in DOMAIN added : added[i] = ItemOf(new_items, item_key(added[i]))
            /\ \A i \in DOMAIN removed : removed[i] = ItemOf(old_items, item_key(removed[i]))
            /\ PairKeys(modified) =
                 {k \in old_keys \cap new_keys :
                    ItemOf(old_items, k).signature # ItemOf(new_items, k).signature}
            /\ \A i \in DOMAIN modified :
                 modified[i] = <<ItemOf(old_items, item_key(modified[i][1])),
                                 ItemOf(new_items, item_key(modified[i][1]))>>
            /\ OncePerKey(added) /\ OncePerKey(removed)
            /\ Len(modified) = Cardinality(PairKeys(modified))
            /\ \A x, y \in Range(old_items) \cup Range(new_items) :
                 (x.path = y.path /\ x.name = y.name /\ x.item_type # y.item_type)
                    => item_key(x) # item_key(y)

\* a function and a struct of one path: the one modified, the other added
C1_Witness ==
    /\ pc = "compared"
    /\ \E i \in DOMAIN modified, j \in DOMAIN added :
         /\ full_path(modified[i][1]) = full_path(added[j])
         /\ modified[i][1].item_type # added[j].item_type

\* C2: each modified pair has one key and two different signatures, and no
\* key is in more than one of added, removed and modified.
C2_ModifiedCorrect ==
    Compared =>
        /\ \A i \in DOMAIN modified :
             /\ item_key(modified[i][1]) = item_key(modified[i][2])
             /\ modified[i][1].signature # modified[i][2].signature
        /\ KeysOf(added) \cap KeysOf(removed) = {}
        /\ KeysOf(added) \cap PairKeys(modified) = {}
        /\ KeysOf(removed) \cap PairKeys(modified) = {}

\* a modified pair beside a removed item
C2_Witness ==
    /\ pc = "compared"
    /\ modified # <<>>
    /\ removed # <<>>

C4_SameUnderShuffle ==
    (pc = "displayed" /\ first # None /\ first.mode = "shuffled") =>
        /\ added = first.added
        /\ removed = first.removed
        /\ modified = first.modified

\* C5: diff(A, B).added = diff(B, A).removed and
\* diff(A, B).removed = diff(B, A).added.
C5_Symmetry ==
    (pc = "displayed" /\ first # None /\ first.mode = "swapped") =>
        /\ first.added = removed
        /\ first.removed = added

\* C6: a snapshot compared with itself gives three empty sequences.
C6_Identity ==
    (Compared /\ old_items = new_items) =>
        /\ added = <<>>
        /\ removed = <<>>
        /\ modified = <<>>

\* a snapshot of two items of one key and different signatures, compared
\* with itself
C6_Witness ==
    /\ Compared
    /\ old_items = new_items
    /\ \E i, j \in DOMAIN old_items :
         /\ item_key(old_items[i]) = item_key(old_items[j])
         /\ old_items[i].signature # old_items[j].signature

\* C14: compare_api_items loses no item: every item of the new snapshot
\* whose key no item of the old snapshot has is in added, every item of the
\* old snapshot whose key no item of the new snapshot has is in removed,
\* also when a snapshot holds several items of one key
C14_NoItemLost ==
    Compared =>
        /\ \A i \in DOMAIN new_items :
                item_key(new_items[i]) \notin KeysOf(old_items)
                    => new_items[i] \in Range(added)
        /\ \A i \in DOMAIN old_items :
                item_key(old_items[i]) \notin KeysOf(new_items)
                    => old_items[i] \in Range(removed)

-----------------------------------------------------------------------------
(* The extractors' claims.                                                 *)

EntryName(e) == get(e, "name")
EntryInner(e) == get(e, "inner")

\* an entry the claim has emitted: a name, a non-empty inner tag set, a kind
\* other than Import and ProcMacro
Qualifies(e) ==
    /\ is_str(EntryName(e))
    /\ is_object(EntryInner(e))
    /\ EntryInner(e).o # <<>>
    /\ EntryInner(e).o[1][1] \notin {"Import", "ProcMacro"}

\* the item the claim has emitted for it
ItemFor(e) ==
    LET kind == EntryInner(e).o[1][1]
        payload == EntryInner(e).o[1][2]
        path == get(e, "path")
    IN  ApiItem(EntryName(e).s, kind,
                IF is_array(path) THEN [i \in DOMAIN path.a |-> path.a[i].s] ELSE <<>>,
                extract_signature(kind, payload))

RECURSIVE ItemsFor(_)
ItemsFor(entries) ==
    IF entries = <<>> THEN <<>>
    ELSE (IF Qualifies(Head(entries)[2]) THEN <<ItemFor(Head(entries)[2])>> ELSE <<>>)
            \o ItemsFor(Tail(entries))

\* C7: extract_api_items emits one item for each entry with a name, a
\* non-empty inner tag set and a kind other than Import and ProcMacro, and
\* nothing for any other entry; the item has the entry's name, the tag key
\* as kind, the entry's path and the signature of the tag's payload.
C7_OneItemPerEntry ==
    (pc = "normalized" /\ is_object(get(json_data, "index"))) =>
        /\ items.ok
        /\ items.items = ItemsFor(get(json_data, "index").o)

\* the parameters of the list that have a string name and a type
RECURSIVE WellFormedParams(_)
WellFormedParams(inputs) ==
    IF inputs = <<>> THEN <<>>
    ELSE (IF is_array(Head(inputs)) /\ Len(Head(inputs).a) >= 2 /\ is_str(Head(inputs).a[1])
          THEN <<Head(inputs).a[1].s \o ": " \o format_type(Head(inputs).a[2])>>
          ELSE <<>>)
            \o WellFormedParams(Tail(inputs))

\* a return type that is there, not null and not the unit type
HasReturnType(payload) ==
    LET output == get(get(payload, "decl"), "output")
    IN  output # None /\ ~is_null(output) /\ format_type(output) # "()"

ReturnType(payload) == format_type(get(get(payload, "decl"), "output"))

ParameterList(payload) == get(get(payload, "decl"), "inputs")

StructLayout(payload) == get(payload, "kind")

\* C9: a plain struct of N fields gives "{ N fields }", a tuple struct
\* "(N fields)", a unit struct "", an enum of N variants "{ N variants }",
\* a trait of N items "{ N items }", any other kind or a missing payload "".
C9_CardinalitySummary ==
    pc = "extracted" =>
        /\ inner_data = None => signature = ""
        /\ item_type \notin {"Function", "Method", "Struct", "Enum", "Trait"} => signature = ""
        /\ (inner_data # None /\ item_type = "Struct") =>
             /\ (StructLayout(inner_data) = JStr("plain") /\ is_array(get(inner_data, "fields"))) =>
                  signature = "{ " \o ToString(Len(get(inner_data, "fields").a)) \o " fields }"
             /\ (StructLayout(inner_data) = JStr("tuple") /\ is_array(get(inner_data, "fields"))) =>
                  signature = "(" \o ToString(Len(get(inner_data, "fields").a)) \o " fields)"
             /\ StructLayout(inner_data) = JStr("unit") => signature = ""
             /\ inner_data = PlainStruct(2) => signature = "{ 2 fields }"
             /\ inner_data = PlainStruct(3) => signature = "{ 3 fields }"
        /\ (inner_data # None /\ item_type = "Enum" /\ is_array(get(inner_data, "variants"))) =>
             signature = "{ " \o ToString(Len(get(inner_data, "variants").a)) \o " variants }"
        /\ (inner_data # None /\ item_type = "Trait" /\ is_array(get(inner_data, "items"))) =>
             signature = "{ " \o ToString(Len(get(inner_data, "items").a)) \o " items }"

IsResolvedPath(ty) == is_str(get(get(ty, "resolved_path"), "name"))
IsPrimitive(ty) == is_str(get(ty, "primitive"))
HasReferent(ty) == get(get(ty, "borrowed_ref"), "type") # None
Referent(ty) == get(get(ty, "borrowed_ref"), "type")
IsMutable(ty) == get(get(ty, "borrowed_ref"), "mutable") = JBool(TRUE)
RefPrefix(ty) == IF IsMutable(ty) THEN "&mut " ELSE "&"

\* the rendering C10 gives: the name of a resolved path; else the name of a
\* primitive; else, of a reference, the prefix and the referent's rendering;
\* the placeholder for every other shape
RECURSIVE RenderedAsClaimed(_)
RenderedAsClaimed(ty) ==
    IF IsResolvedPath(ty) THEN get(get(ty, "resolved_path"), "name").s
    ELSE IF IsPrimitive(ty) THEN get(ty, "primitive").s
    ELSE IF HasReferent(ty) THEN RefPrefix(ty) \o RenderedAsClaimed(Referent(ty))
    ELSE "..."

\* the same, but that a reference without a referent renders the referent
\* as "?"
RECURSIVE Rendered(_)
Rendered(ty) ==
    IF IsResolvedPath(ty) THEN get(get(ty, "resolved_path"), "name").s
    ELSE IF IsPrimitive(ty) THEN get(ty, "primitive").s
    ELSE IF HasReferent(ty) THEN RefPrefix(ty) \o Rendered(Referent(ty))
    ELSE IF get(ty, "borrowed_ref") # None THEN RefPrefix(ty) \o "?"
    ELSE "..."

\* C10 as the spec has it: format_type renders by the four rules, in their
\* order, and every shape that is none of the first three as "...".
C10_FormatRulesAsClaimed ==
    pc = "formatted" => formatted = RenderedAsClaimed(type_data)

\* C10, amended: as above, but a reference that has no referent renders as
\* "&?" ("&mut ?").
C10_FormatRules ==
    pc = "formatted" => formatted = Rendered(type_data)

\* a mutable reference to a reference to an unmodelled shape
C10_Witness ==
    /\ pc = "formatted"
    /\ type_data = Ref(JBool(TRUE), Ref(None, Tuple))
    /\ formatted = "&mut &..."

FuzzyInit ==
    /\ IdleDiff
    /\ json_data \in SearchDocuments /\ items = None
    /\ item_type = "" /\ inner_data = None /\ signature = ""
    /\ type_data = None /\ formatted = ""
    /\ matcher \in Matchers(SearchNames)
    /\ crates = <<>> /\ limit = 0
    /\ results = None

\* fuzzy_search_json on a document
SpecFuzzy == FuzzyInit /\ [][FuzzySearch]_vars

IndexInit ==
    /\ IdleDiff
    /\ json_data \in IndexDocuments /\ items = None
    /\ item_type = "" /\ inner_data = None /\ signature = ""
    /\ type_data = None /\ formatted = ""
    /\ matcher \in Matchers(SearchNames)
    /\ crates = <<>> /\ limit = 0
    /\ results = None

NextIndex == Normalize \/ FuzzySearch

\* extract_api_items and fuzzy_search_json on one document
SpecIndex == IndexInit /\ [][NextIndex]_vars

-----------------------------------------------------------------------------
(* The search's claims.                                                    *)

Searched == results # None /\ results.ok

\* the entries of the index a crate's file holds, none when it holds none
IndexEntries(c) ==
    IF c.json \in {None, Unparsable} \/ ~is_object(get(c.json, "index"))
    THEN <<>>
    ELSE get(c.json, "index").o

\* the entries of the crates that have a name, as <<crate, entry>>
NamedItems(cs) ==
    UNION {{<<c, i>> : i \in {j \in DOMAIN IndexEntries(cs[c]) :
                                is_str(get(IndexEntries(cs[c])[j][2], "name"))}} :
            c \in DOMAIN cs}

NameOf(cs, x) == get(IndexEntries(cs[x[1]])[x[2]][2], "name").s

\* every match of the search: the named items the matcher scores
AllMatches(cs, m) == {x \in NamedItems(cs) : m[NameOf(cs, x)].matched}

\* the list names the matches in kept, one entry each
Lists(list, kept, cs, m) ==
    \E f \in [DOMAIN list -> kept] :
        /\ \A i, j \in DOMAIN list : f[i] = f[j] => i = j
        /\ \A x \in kept : \E i \in DOMAIN list : f[i] = x
        /\ \A i \in DOMAIN list :
                /\ list[i].crate_name = cs[f[i][1]].crate_name
                /\ list[i].name = NameOf(cs, f[i])
                /\ list[i].score = m[NameOf(cs, f[i])].score

\* C11: the list search_docs prints holds at most limit matches of the
\* crates, each once, by non-increasing score; no match left out has a
\* score above that of a match kept; and with a matcher that rejects no
\* name and a limit of at least the number of named items, every named item
\* is in the list
C11_TopMatches ==
    Searched =>
        LET list == results.items
            all == AllMatches(crates, matcher)
        IN  /\ Len(list) <= limit
            /\ \A i, j \in DOMAIN list : i < j => list[i].score >= list[j].score
            /\ \E kept \in SUBSET all :
                    /\ Lists(list, kept, crates, matcher)
                    /\ \A x \in all \ kept : \A i \in DOMAIN list :
                            matcher[NameOf(crates, x)].score <= list[i].score
            /\ ((\A n \in DOMAIN matcher : matcher[n].matched)
                    /\ limit >= Cardinality(NamedItems(crates)))
                => \E kept \in {NamedItems(crates)} : Lists(list, kept, crates, matcher)

\* a search that leaves out a match and keeps two of different scores
C11_Witness ==
    /\ Searched
    /\ Len(results.items) = limit
    /\ Cardinality(AllMatches(crates, matcher)) > limit
    /\ \E i, j \in DOMAIN results.items :
            results.items[i].score > results.items[j].score

\* the entries of the searched document
SearchedEntries ==
    [i \in DOMAIN get(json_data, "index").o |-> get(json_data, "index").o[i][2]]

\* the entries with a name that is no null, which the matcher scores
Scored ==
    {i \in DOMAIN SearchedEntries :
        /\ EntryName(SearchedEntries[i]) \notin {None, JNull}
        /\ matcher[EntryName(SearchedEntries[i]).s].matched}

\* the kind of a result: the first key of inner, "unknown" for an inner that
\* is absent or empty
ResultKind(e) ==
    IF EntryInner(e) = None \/ EntryInner(e).o = <<>>
    THEN "unknown"
    ELSE EntryInner(e).o[1][1]

\* the result of an entry: its name, its kind, its score and its docs
ResultFor(r, e) ==
    /\ r.name = EntryName(e).s
    /\ r.crate_name = SearchedCrate
    /\ r.item_type = ResultKind(e)
    /\ r.score = matcher[EntryName(e).s].score
    /\ is_str(get(e, "docs")) => r.description = get(e, "docs")

\* C12: fuzzy_search_json returns one result for each entry that has a name
\* and that the matcher scores, and no other result; the kind of a result is
\* the first key of inner, Import and ProcMacro included, "unknown" for an
\* inner that is absent or empty; the docs are carried through as they are
C12_OneResultPerMatch ==
    (Searched /\ json_data # None) =>
        \E f \in [DOMAIN results.items -> Scored] :
            /\ \A i, j \in DOMAIN f : f[i] = f[j] => i = j
            /\ \A x \in Scored : \E i \in DOMAIN f : f[i] = x
            /\ \A i \in DOMAIN f : ResultFor(results.items[i], SearchedEntries[f[i]])

\* a search that drops an entry and finds a re-export with its docs
C12_Witness ==
    /\ Searched /\ json_data # None
    /\ Len(results.items) < Len(SearchedEntries)
    /\ \E i \in DOMAIN results.items :
            /\ results.items[i].item_type = "Import"
            /\ results.items[i].description = DocText

\* the document has an index that is a mapping
HasIndex == json_data # None /\ is_object(get(json_data, "index"))

\* a result without items
Failed(r) == ~r.ok /\ DOMAIN r = {"ok"}

\* C13: extract_api_items and fuzzy_search_json fail exactly on a document
\* whose index is missing or is no mapping, and then give no items; on an
\* index that is a mapping they succeed whatever its entries are, and an
\* entry of an unknown shape does not keep the other entries from being
\* processed: extract_api_items gives the item of every entry with a name
\* and a kind it does not skip, fuzzy_search_json a result for every entry
\* with a name that the matcher scores
C13_IndexErrors ==
    /\ pc = "normalized" =>
            /\ items.ok <=> HasIndex
            /\ ~items.ok => Failed(items)
            /\ items.ok =>
                    \A i \in DOMAIN SearchedEntries :
                        Qualifies(SearchedEntries[i])
                            => ItemFor(SearchedEntries[i]) \in Range(items.items)
    /\ (results # None /\ json_data # None) =>
            /\ results.ok <=> HasIndex
            /\ ~results.ok => Failed(results)
            /\ results.ok =>
                    \A i \in Scored :
                        \E j \in DOMAIN results.items :
                            /\ results.items[j].name = EntryName(SearchedEntries[i]).s
                            /\ results.items[j].score =
                                    matcher[EntryName(SearchedEntries[i]).s].score

\* both functions have processed an index with an entry of an unknown
\* shape before an entry they know
C13_Witness ==
    /\ pc = "normalized" /\ results # None /\ HasIndex
    /\ Len(SearchedEntries) = 2
    /\ SearchedEntries[1] \in OddEntries
    /\ SearchedEntries[2] = NamedEntry("filter")
    /\ items.ok /\ \E i \in DOMAIN items.items : items.items[i].name = "filter"
    /\ results.ok /\ \E i \in DOMAIN results.items : results.items[i].name = "filter"

====
